---- MODULE Spec2Model ----
(***************************************************************************)
(* GlobalFilterDefaults (orion-design/src/models/GlobalFilterDefaults.ts). *)
(*                                                                         *)
(* The class is a set of field initialisers run by `new`.  The model keeps *)
(* the JavaScript object graph explicit: a heap of objects addressed by    *)
(* <<instance, allocation site>>, so that "the same object" (a reference)  *)
(* and "an equal object" (a deep value) are different things.  TypeScript  *)
(* `private` and `readonly` are erased at run time: the two private fields *)
(* are own properties of the instance like the four public ones.           *)
(***************************************************************************)
EXTENDS Integers, Sequences, FiniteSets, TLC

VARIABLES heap,    \* address -> object (a function key -> value, or an array)
          n,       \* number of instances constructed so far: instances 1..n
          writes,  \* number of consumer writes performed (bounded)
          got      \* per reader: what its last read returned

vars == <<heap, n, writes, got>>

\* ---------------------------------------------------------------- bounds
MaxInstances == 2
MaxWrites == 2
NumReaders == 2

Instances == 1..MaxInstances
Readers == 1..NumReaders

\* ------------------------------------------------------------ heap basics
Undefined == <<0, "undefined">>
EmptyObject == <<>>
EmptyHeap == <<>>

This(i) == <<i, "this">>

Alloc(h, a, v) == (a :> v) @@ h
Store(h, a, v) == [h EXCEPT ![a] = v]
Get(obj, k) == IF k \in DOMAIN obj THEN obj[k] ELSE Undefined
DefineField(h, a, k, v) == Store(h, a, (k :> v) @@ h[a])

\* ------------------------------------------------- the literals of the class
StateSites == <<"state1", "state2", "state3", "state4", "state5", "state6">>

\* variant: the last entry of the list is left out
defaultStatesShort ==
  << [name |-> "Scheduled", type |-> "SCHEDULED"],
     [name |-> "Pending",   type |-> "PENDING"],
     [name |-> "Running",   type |-> "RUNNING"],
     [name |-> "Completed", type |-> "COMPLETED"],
     [name |-> "Failed",    type |-> "FAILED"] >>

defaultStates ==
  << [name |-> "Scheduled", type |-> "SCHEDULED"],
     [name |-> "Pending",   type |-> "PENDING"],
     [name |-> "Running",   type |-> "RUNNING"],
     [name |-> "Completed", type |-> "COMPLETED"],
     [name |-> "Failed",    type |-> "FAILED"],
     [name |-> "Cancelled", type |-> "CANCELLED"] >>

defaultTimeFrameFrom == [value |-> 7, unit |-> "days"]
defaultTimeFrameTo == [value |-> 1, unit |-> "days"]
defaultTimeFrameDynamic == TRUE

\* ------------------------------------------------------ field initialisers
\* the array literal [ {...} x 6 ]: a new array of six new RunState objects
defaultStatesAlloc(h, i) ==
  LET elems == [k \in 1..Len(defaultStates) |-> <<i, StateSites[k]>>]
      new == {elems[k] : k \in 1..Len(defaultStates)} \cup {<<i, "defaultStates">>}
  IN [a \in DOMAIN h \cup new |->
        IF a = <<i, "defaultStates">> THEN elems
        ELSE IF a \in new
             THEN defaultStates[CHOOSE k \in 1..Len(defaultStates) : elems[k] = a]
             ELSE h[a]]

\* variant: the list is evaluated once and shared by every instance (a static)
defaultStatesInitStatic(h, i) ==
  IF i = 1
  THEN DefineField(defaultStatesAlloc(h, i), This(i), "defaultStates", <<i, "defaultStates">>)
  ELSE DefineField(h, This(i), "defaultStates", <<1, "defaultStates">>)

\* private readonly defaultStates: RunState[] = [ {...} x 6 ]
defaultStatesInit(h, i) ==
  DefineField(defaultStatesAlloc(h, i), This(i), "defaultStates", <<i, "defaultStates">>)

\* the object literal { dynamic, from: {...}, to: {...} }: three new objects
defaultTimeFrameAlloc(h, i) ==
  LET h1 == Alloc(h, <<i, "from">>, defaultTimeFrameFrom)
      h2 == Alloc(h1, <<i, "to">>, defaultTimeFrameTo)
  IN Alloc(h2, <<i, "defaultTimeFrame">>,
           [dynamic |-> defaultTimeFrameDynamic,
            from |-> <<i, "from">>, to |-> <<i, "to">>])

\* variant: the window is evaluated once and shared by every instance (a static)
defaultTimeFrameInitStatic(h, i) ==
  IF i = 1
  THEN DefineField(defaultTimeFrameAlloc(h, i), This(i),
                   "defaultTimeFrame", <<i, "defaultTimeFrame">>)
  ELSE DefineField(h, This(i), "defaultTimeFrame", <<1, "defaultTimeFrame">>)

\* variant: the window is a local constant, not a field of the instance
defaultTimeFrameInitLocal(h, i) == defaultTimeFrameAlloc(h, i)

\* private readonly defaultTimeFrame: RunTimeFrame = { dynamic, from, to }
defaultTimeFrameInit(h, i) ==
  DefineField(defaultTimeFrameAlloc(h, i), This(i),
              "defaultTimeFrame", <<i, "defaultTimeFrame">>)

\* public flows = {}
flowsInit(h, i) ==
  DefineField(Alloc(h, <<i, "flows">>, EmptyObject), This(i), "flows", <<i, "flows">>)

\* variant: deployments is given the object flows holds
deploymentsInitShared(h, i) ==
  DefineField(h, This(i), "deployments", Get(h[This(i)], "flows"))

\* public deployments = {}
deploymentsInit(h, i) ==
  DefineField(Alloc(h, <<i, "deployments">>, EmptyObject),
              This(i), "deployments", <<i, "deployments">>)

\* variant: flow_runs is given shallow copies of the two defaults
flow_runsInitCopy(h, i) ==
  LET h1 == Alloc(h, <<i, "copy_states">>, h[Get(h[This(i)], "defaultStates")])
      h2 == Alloc(h1, <<i, "copy_timeframe">>, h[Get(h[This(i)], "defaultTimeFrame")])
  IN DefineField(Alloc(h2, <<i, "flow_runs">>,
                       [timeframe |-> <<i, "copy_timeframe">>,
                        states |-> <<i, "copy_states">>]),
                 This(i), "flow_runs", <<i, "flow_runs">>)

\* public flow_runs = { timeframe: this.defaultTimeFrame, states: this.defaultStates }
flow_runsInit(h, i) ==
  DefineField(Alloc(h, <<i, "flow_runs">>,
                    [timeframe |-> Get(h[This(i)], "defaultTimeFrame"),
                     states |-> Get(h[This(i)], "defaultStates")]),
              This(i), "flow_runs", <<i, "flow_runs">>)

\* variant: task_runs is given the default states too
task_runsInitWithStates(h, i) ==
  DefineField(Alloc(h, <<i, "task_runs">>, [states |-> Get(h[This(i)], "defaultStates")]),
              This(i), "task_runs", <<i, "task_runs">>)

\* public task_runs = {}
task_runsInit(h, i) ==
  DefineField(Alloc(h, <<i, "task_runs">>, EmptyObject),
              This(i), "task_runs", <<i, "task_runs">>)

\* variant: the public fields are declared (and so initialised) before the
\* private defaults they read
ConstructorPublicFirst(h, i) ==
  LET h0 == Alloc(h, This(i), EmptyObject)
      h1 == flowsInit(h0, i)
      h2 == deploymentsInit(h1, i)
      h3 == flow_runsInit(h2, i)
      h4 == task_runsInit(h3, i)
      h5 == defaultStatesInit(h4, i)
  IN defaultTimeFrameInit(h5, i)

\* new GlobalFilterDefaults(): the initialisers run in declaration order
Constructor(h, i) ==
  LET h0 == Alloc(h, This(i), EmptyObject)
      h1 == defaultStatesInit(h0, i)
      h2 == defaultTimeFrameInit(h1, i)
      h3 == flowsInit(h2, i)
      h4 == deploymentsInit(h3, i)
      h5 == flow_runsInit(h4, i)
  IN task_runsInit(h5, i)

\* ------------------------------------------------------------ deep values
PublicFields == {"flows", "deployments", "flow_runs", "task_runs"}
PlainFields == {"flows", "deployments", "task_runs"}
UndefinedValue == [undefined |-> TRUE]

\* Object.keys(instance): the own enumerable properties of the run-time object
OwnKeys(h, i) == DOMAIN h[This(i)]

\* the reference an instance field holds
Field(h, i, f) == Get(h[This(i)], f)

\* the deep value of a RunState[] / RunTimeFrame / payload object (what a
\* structural comparison or a serialisation of it sees)
StatesValue(h, a) ==
  IF a = Undefined THEN UndefinedValue
  ELSE [k \in 1..Len(h[a]) |-> h[h[a][k]]]

TimeFrameValue(h, a) ==
  IF a = Undefined THEN UndefinedValue
  ELSE [dynamic |-> h[a].dynamic, from |-> h[h[a].from], to |-> h[h[a].to]]

FlowRunsValue(h, a) ==
  [timeframe |-> TimeFrameValue(h, Get(h[a], "timeframe")),
   states |-> StatesValue(h, Get(h[a], "states"))]

\* variant: task_runs reads the flow_runs defaults
FieldValueTaskRunsAsFlowRuns(h, i, f) ==
  IF f \in {"flow_runs", "task_runs"} THEN FlowRunsValue(h, Field(h, i, "flow_runs"))
  ELSE h[Field(h, i, f)]

\* reading a public field of instance i: a plain data property, no getter
FieldValue(h, i, f) ==
  IF f = "flow_runs" THEN FlowRunsValue(h, Field(h, i, f))
  ELSE h[Field(h, i, f)]

Payloads(h, i) == [f \in PublicFields |-> FieldValue(h, i, f)]

\* the values behind the two private fields
PrivateDefaults(h, i) ==
  [defaultStates |-> StatesValue(h, Field(h, i, "defaultStates")),
   defaultTimeFrame |-> TimeFrameValue(h, Field(h, i, "defaultTimeFrame"))]

\* --------------------------------------------------------- consumer writes
\* The public fields are declared without `readonly`, and the objects they
\* hold are ordinary mutable objects: these are the writes TypeScript accepts
\* from code that holds an instance.
FilterKeys == {"ids"}
FilterValues == {"x", "y"}
FromValues == {14}

NewSite(f) ==
  CASE f = "flows" -> "new_flows"
    [] f = "deployments" -> "new_deployments"
    [] f = "flow_runs" -> "new_flow_runs"
    [] f = "task_runs" -> "new_task_runs"

\* s.splice(k - 1, 1), Array.prototype.splice with start = k - 1 and
\* deleteCount = 1: a negative start counts from the end (clamped at 0), a
\* start at or past the end removes nothing
RemoveAt(s, k) ==
  LET start == k - 1
      actual == IF start < 0
                THEN (IF Len(s) + start > 0 THEN Len(s) + start ELSE 0)
                ELSE (IF start < Len(s) THEN start ELSE Len(s))
      del == IF Len(s) - actual >= 1 THEN 1 ELSE 0
  IN IF del = 0 THEN s
     ELSE [j \in 1..(Len(s) - 1) |-> IF j <= actual THEN s[j] ELSE s[j + 1]]

StatesRef(h, i) == Get(h[Field(h, i, "flow_runs")], "states")
TimeFrameRef(h, i) == Get(h[Field(h, i, "flow_runs")], "timeframe")

\* instance.flow_runs.states.splice(k - 1, 1)
SpliceState(h, i, k) == Store(h, StatesRef(h, i), RemoveAt(h[StatesRef(h, i)], k))

\* instance.flow_runs.timeframe.from.value = v
SetFromValue(h, i, v) ==
  LET a == h[TimeFrameRef(h, i)].from IN Store(h, a, [h[a] EXCEPT !.value = v])

\* instance.flow_runs.timeframe.dynamic = false
SetDynamic(h, i, b) ==
  Store(h, TimeFrameRef(h, i), [h[TimeFrameRef(h, i)] EXCEPT !.dynamic = b])

\* instance[f][k] = v, for f one of flows, deployments, task_runs
SetPayloadKey(h, i, f, k, v) == DefineField(h, Field(h, i, f), k, v)

\* instance.flow_runs.states = []
AssignStates(h, i) ==
  DefineField(Alloc(h, <<i, "new_states">>, <<>>),
              Field(h, i, "flow_runs"), "states", <<i, "new_states">>)

\* instance.flow_runs.timeframe = { dynamic: false, from: {...}, to: {...} }
AssignTimeFrame(h, i, v) ==
  LET h1 == Alloc(h, <<i, "new_from">>, [value |-> v, unit |-> "days"])
      h2 == Alloc(h1, <<i, "new_to">>, [value |-> 0, unit |-> "days"])
      h3 == Alloc(h2, <<i, "new_timeframe">>,
                  [dynamic |-> FALSE, from |-> <<i, "new_from">>, to |-> <<i, "new_to">>])
  IN DefineField(h3, Field(h, i, "flow_runs"), "timeframe", <<i, "new_timeframe">>)

\* instance[f] = { ... }: a new object (for flow_runs a shallow copy, which is
\* what its declared type requires; for the others an empty filter)
AssignField(h, i, f) ==
  LET v == IF f = "flow_runs" THEN h[Field(h, i, f)] ELSE EmptyObject
  IN DefineField(Alloc(h, <<i, NewSite(f)>>, v), This(i), f, <<i, NewSite(f)>>)

\* ----------------------------------------------------------------- actions
NoRead == [inst |-> 0, field |-> "none", value |-> EmptyObject]

Init ==
  /\ heap = EmptyHeap
  /\ n = 0
  /\ writes = 0
  /\ got = [r \in Readers |-> NoRead]

Construct ==
  /\ n < MaxInstances
  /\ n' = n + 1
  /\ heap' = Constructor(heap, n + 1)
  /\ UNCHANGED <<writes, got>>

Write(h) ==
  /\ writes < MaxWrites
  /\ writes' = writes + 1
  /\ heap' = h
  /\ UNCHANGED <<n, got>>

DoSpliceState(i, k) ==
  /\ i \in 1..n
  /\ StatesRef(heap, i) # Undefined
  /\ Write(SpliceState(heap, i, k))

DoSetFromValue(i, v) ==
  /\ i \in 1..n
  /\ TimeFrameRef(heap, i) # Undefined
  /\ Write(SetFromValue(heap, i, v))

DoSetDynamic(i, b) ==
  /\ i \in 1..n
  /\ TimeFrameRef(heap, i) # Undefined
  /\ Write(SetDynamic(heap, i, b))

DoSetPayloadKey(i, f, k, v) ==
  /\ i \in 1..n
  /\ Field(heap, i, f) # Undefined
  /\ Write(SetPayloadKey(heap, i, f, k, v))

DoAssignStates(i) ==
  /\ i \in 1..n
  /\ Field(heap, i, "flow_runs") # Undefined
  /\ Write(AssignStates(heap, i))

DoAssignTimeFrame(i, v) ==
  /\ i \in 1..n
  /\ Field(heap, i, "flow_runs") # Undefined
  /\ Write(AssignTimeFrame(heap, i, v))

DoAssignField(i, f) ==
  /\ i \in 1..n
  /\ Field(heap, i, f) # Undefined
  /\ Write(AssignField(heap, i, f))

\* a reader evaluates instance[f]
Read(r, i, f) ==
  /\ i \in 1..n
  /\ Field(heap, i, f) # Undefined
  /\ got' = [got EXCEPT ![r] = [inst |-> i, field |-> f, value |-> FieldValue(heap, i, f)]]
  /\ UNCHANGED <<heap, n, writes>>

Reads == \E r \in Readers, i \in Instances, f \in PublicFields : Read(r, i, f)

Writes ==
  \/ \E i \in Instances, k \in 0..(Len(defaultStates) + 1) : DoSpliceState(i, k)
  \/ \E i \in Instances, v \in FromValues : DoSetFromValue(i, v)
  \/ \E i \in Instances : DoSetDynamic(i, FALSE)
  \/ \E i \in Instances, f \in PlainFields, k \in FilterKeys, v \in FilterValues :
       DoSetPayloadKey(i, f, k, v)
  \/ \E i \in Instances : DoAssignStates(i)
  \/ \E i \in Instances, v \in FromValues : DoAssignTimeFrame(i, v)
  \/ \E i \in Instances, f \in PublicFields : DoAssignField(i, f)

Next == Construct \/ Writes

Spec == Init /\ [][Next]_vars

\* construction and reads only: any number of readers sharing the instances
NextReaders == Construct \/ Reads

SpecReaders == Init /\ [][NextReaders]_vars

\* ================================================================ properties
\* the step that constructs instance i
JustConstructed(i) == n = i - 1 /\ n' = i

ExpectedTypes == <<"SCHEDULED", "PENDING", "RUNNING", "COMPLETED", "FAILED", "CANCELLED">>
ExpectedNames == <<"Scheduled", "Pending", "Running", "Completed", "Failed", "Cancelled">>
ExpectedTimeFrame ==
  [dynamic |-> TRUE, from |-> [value |-> 7, unit |-> "days"],
   to |-> [value |-> 1, unit |-> "days"]]
ExpectedPayloads ==
  [f \in PublicFields |->
     IF f = "flow_runs"
     THEN [timeframe |-> ExpectedTimeFrame,
           states |-> [k \in 1..6 |-> [name |-> ExpectedNames[k], type |-> ExpectedTypes[k]]]]
     ELSE EmptyObject]
PrivateFields == {"defaultStates", "defaultTimeFrame"}

\* everything an instance holds, public and private, by value
InstanceState(h, i) == <<Payloads(h, i), PrivateDefaults(h, i)>>

\* C1: right after any construction, the new instance's flow_runs.states is
\* a list of exactly six {name, type} entries, the types being SCHEDULED,
\* PENDING, RUNNING, COMPLETED, FAILED, CANCELLED in that order and each name
\* the matching display label.
C1_StatesAtConstruction ==
  [][\A i \in Instances : JustConstructed(i) =>
       LET st == StatesValue(heap', StatesRef(heap', i))
       IN /\ StatesRef(heap', i) # Undefined
          /\ Len(st) = 6
          /\ \A k \in 1..6 : /\ DOMAIN st[k] = {"name", "type"}
                             /\ st[k].type = ExpectedTypes[k]
                             /\ st[k].name = ExpectedNames[k]
          /\ \A k, m \in 1..6 : st[k].type = st[m].type => k = m]_vars

\* an instance constructed after an earlier one lost a state still has six
C1_Witness ==
  /\ n = 2
  /\ Len(heap[StatesRef(heap, 1)]) = 5
  /\ Len(heap[StatesRef(heap, 2)]) = 6

\* C2: right after any construction, the new instance's flow_runs.timeframe
\* is defined (the private default was initialised before flow_runs read it)
\* and is {dynamic: true, from: {value: 7, unit: 'days'}, to: {value: 1,
\* unit: 'days'}}.
C2_TimeFrameAtConstruction ==
  [][\A i \in Instances : JustConstructed(i) =>
       /\ TimeFrameRef(heap', i) # Undefined
       /\ TimeFrameValue(heap', TimeFrameRef(heap', i)).dynamic = TRUE
       /\ TimeFrameValue(heap', TimeFrameRef(heap', i)).from = [value |-> 7, unit |-> "days"]
       /\ TimeFrameValue(heap', TimeFrameRef(heap', i)).to = [value |-> 1, unit |-> "days"]]_vars

\* an instance constructed while an earlier one has an edited window
C2_Witness ==
  /\ n = 2
  /\ TimeFrameRef(heap, 1) # Undefined /\ TimeFrameRef(heap, 2) # Undefined
  /\ TimeFrameValue(heap, TimeFrameRef(heap, 1)).from.value = 14
  /\ TimeFrameValue(heap, TimeFrameRef(heap, 2)) = ExpectedTimeFrame

\* C3: right after any construction, flows, deployments and task_runs of the
\* new instance are objects with no keys, and flow_runs is an object with
\* exactly the keys timeframe and states.
C3_EmptyPayloadsAtConstruction ==
  [][\A i \in Instances : JustConstructed(i) =>
       /\ \A f \in PlainFields :
            Field(heap', i, f) # Undefined /\ DOMAIN heap'[Field(heap', i, f)] = {}
       /\ Field(heap', i, "flow_runs") # Undefined
       /\ DOMAIN heap'[Field(heap', i, "flow_runs")] = {"timeframe", "states"}]_vars

\* an instance constructed while an earlier one has a key in flows
C3_Witness ==
  /\ n = 2
  /\ DOMAIN heap[Field(heap, 1, "flows")] # {}
  /\ \A f \in PlainFields : DOMAIN heap[Field(heap, 2, f)] = {}

\* C4: the payloads of an instance constructed at any point of an execution
\* (whatever was written to earlier instances) are deep-equal to the payloads
\* of a construction performed in the initial state; so any two freshly
\* constructed payloads are deep-equal.
C4_ConstructionIdempotent ==
  [][\A i \in Instances : JustConstructed(i) =>
       Payloads(heap', i) = Payloads(Constructor(EmptyHeap, 1), 1)]_vars

\* the second instance exists and the first no longer equals it
C4_Witness ==
  /\ n = 2
  /\ writes = MaxWrites
  /\ Payloads(heap, 1) # Payloads(heap, 2)
  /\ Payloads(heap, 2) = Payloads(Constructor(EmptyHeap, 1), 1)

\* C5 (as claimed): in every reachable state every instance still holds, in
\* its four public fields and in its private defaults, exactly the values it
\* was constructed with.
C5_NeverMutated ==
  \A i \in 1..n :
    /\ Payloads(heap, i) = ExpectedPayloads
    /\ PrivateDefaults(heap, i) =
         [defaultStates |-> ExpectedPayloads["flow_runs"].states,
          defaultTimeFrame |-> ExpectedTimeFrame]

\* C6 (as claimed): the own keys of an instance are exactly flows,
\* deployments, flow_runs and task_runs.
C6_ExactlyFourKeys ==
  \A i \in 1..n : OwnKeys(heap, i) = {"flows", "deployments", "flow_runs", "task_runs"}

\* C6 (amended): in every reachable state an instance has exactly six own
\* keys: the four public ones (flows, deployments, flow_runs, task_runs) and
\* the two private ones (defaultStates, defaultTimeFrame).
C6_FourPublicTwoPrivateKeys ==
  \A i \in 1..n :
    /\ OwnKeys(heap, i) \ PrivateFields = {"flows", "deployments", "flow_runs", "task_runs"}
    /\ OwnKeys(heap, i) \cap PrivateFields = {"defaultStates", "defaultTimeFrame"}
    /\ Cardinality(OwnKeys(heap, i)) = 6

\* an instance whose fields were reassigned still has the same keys
C6_Witness ==
  /\ n >= 1
  /\ Field(heap, 1, "flows") = <<1, "new_flows">>
  /\ Field(heap, 1, "flow_runs") = <<1, "new_flow_runs">>
  /\ Cardinality(OwnKeys(heap, 1)) = 6

\* C7: with any number of readers reading the public fields of shared
\* instances in any interleaving, every read returns the constructed default
\* value of the field it read and every instance keeps its constructed state.
C7_ConcurrentReaders ==
  /\ \A r \in Readers : got[r].inst # 0 =>
       /\ got[r].inst \in 1..n
       /\ got[r].value = ExpectedPayloads[got[r].field]
  /\ \A i \in 1..n : Payloads(heap, i) = ExpectedPayloads

\* two readers have read task_runs and flow_runs of the same instance
C7_Witness ==
  /\ n = 2
  /\ got[1].inst = 1 /\ got[2].inst = 1
  /\ got[1].field = "task_runs" /\ got[2].field = "flow_runs"

\* C8: the four public fields of an instance hold four distinct objects, and
\* a step that changes one of the four payloads leaves the other three as
\* they were.
C8_PayloadsIndependent ==
  [][\A i \in 1..n :
       /\ Cardinality({Field(heap, i, f) : f \in PublicFields}) = 4
       /\ \A f \in PublicFields :
            FieldValue(heap', i, f) # FieldValue(heap, i, f) =>
              \A g \in PublicFields \ {f} : FieldValue(heap', i, g) = FieldValue(heap, i, g)]_vars

\* flows and task_runs of one instance carry different values, deployments none
C8_Witness ==
  /\ n >= 1
  /\ FieldValue(heap, 1, "flows") = [ids |-> "x"]
  /\ FieldValue(heap, 1, "task_runs") = [ids |-> "y"]
  /\ DOMAIN heap[Field(heap, 1, "deployments")] = {}
  /\ FieldValue(heap, 1, "flow_runs") = ExpectedPayloads["flow_runs"]

\* C9: in every reachable state flow_runs.timeframe is the object the private
\* defaultTimeFrame holds and flow_runs.states is the object the private
\* defaultStates holds, each unless the consumer assigned a new object to that
\* key; so the private defaults show what was edited through flow_runs.
C9_DefaultsAliased ==
  \A i \in 1..n :
    /\ TimeFrameRef(heap, i) # <<i, "new_timeframe">> =>
         /\ TimeFrameRef(heap, i) # Undefined
         /\ TimeFrameRef(heap, i) = Field(heap, i, "defaultTimeFrame")
         /\ PrivateDefaults(heap, i).defaultTimeFrame =
              FieldValue(heap, i, "flow_runs").timeframe
    /\ StatesRef(heap, i) # <<i, "new_states">> =>
         /\ StatesRef(heap, i) # Undefined
         /\ StatesRef(heap, i) = Field(heap, i, "defaultStates")
         /\ PrivateDefaults(heap, i).defaultStates = FieldValue(heap, i, "flow_runs").states

\* the private defaults of an instance are no longer the constructed ones
C9_Witness ==
  /\ n >= 1
  /\ Len(PrivateDefaults(heap, 1).defaultStates) = 5
  /\ PrivateDefaults(heap, 1).defaultTimeFrame.from.value = 14

\* C10: a construction leaves every existing instance as it was and yields an
\* instance equal to the original defaults, and a write changes the state
\* (public payloads and private defaults) of at most one instance.
C10_InstancesDisjoint ==
  [][/\ \A i \in Instances : JustConstructed(i) =>
          /\ Payloads(heap', i) = ExpectedPayloads
          /\ \A j \in 1..n : InstanceState(heap', j) = InstanceState(heap, j)
     /\ Cardinality({i \in 1..n : InstanceState(heap', i) # InstanceState(heap, i)}) <= 1]_vars

\* both instances exist, the first was written twice, the second is pristine
C10_Witness ==
  /\ n = 2
  /\ writes = MaxWrites
  /\ FieldValue(heap, 1, "flow_runs").timeframe.dynamic = FALSE
  /\ DOMAIN heap[Field(heap, 1, "deployments")] # {}
  /\ InstanceState(heap, 2) = InstanceState(Constructor(EmptyHeap, 1), 1)
====
